---- MODULE Spec2Model ----
(***************************************************************************)
(* MIRA chatbot (src/index.tsx): the page's event handlers as a state      *)
(* machine.  Strings are sequences of one-character strings, so that trim, *)
(* toLowerCase, startsWith, substring, JSON.stringify and JSON.parse are   *)
(* computed character by character as the platform computes them.          *)
(***************************************************************************)
EXTENDS Integers, Sequences, FiniteSets, TLC

VARIABLES
    chatHistory,            \* children of #chat-history, in document order
    nodes,                  \* number of elements created so far (element identity)
    chatInput,              \* chatInput.value
    loadingMessageElement,  \* 0 (null) or the identity of the loading element
    reminders,              \* the in-memory Reminder[]
    remindersList,          \* children of #reminders-list as rendered
    localStorage,           \* the page's local storage: a function from keys to strings
    now,                    \* the value Date.now() returns
    remoteCalls,            \* chat.sendMessage calls of this session, with promise state
    isListening,
    isSpeaking,
    recognition,            \* state of the SpeechRecognition object
    recognitionError,       \* history: event.error of the error event of the
                            \* recognition session that is ending, or "none"
    synthQueue,             \* speechSynthesis utterance queue; a started head is audible
    utterances,             \* number of SpeechSynthesisUtterance objects created
    cancelledEnds,          \* end/error events still to be delivered for cancelled utterances
    loaded,                 \* the window load event has fired
    welcomeTimer,           \* the 500 ms timeout is scheduled
    uncaught,               \* exceptions that escaped a handler
    submitted,              \* history: arguments of sendMessageToMira, in call order
    clickCancelled,         \* history: utterances in the queue at the last starting mic click
    previousSession,        \* history: <<list>>, the reminders when the previous session
                            \* ended, if it had run its load handler; else <<>>
    events,                 \* user input events so far
    budget                  \* user input events a run may hold

vars == <<chatHistory, nodes, chatInput, loadingMessageElement, reminders,
          remindersList, localStorage, now, remoteCalls, isListening, isSpeaking,
          recognition, recognitionError, synthQueue, utterances, cancelledEnds, loaded,
          welcomeTimer,
          uncaught, submitted, clickCancelled, previousSession, events, budget>>

----------------------------------------------------------------------------
(* Bounds of the model *)

\* User input events (submit, delete click, microphone click, reload) per run.
MaxEvents == 2

\* The same, for runs of the reminder store alone.
MaxStoreEvents == 3

\* Milliseconds the clock may advance during a run.
MaxClock == 1

----------------------------------------------------------------------------
(* Strings *)

IsWhiteSpace(c) == c \in {" ", "\t", "\n"}

RECURSIVE TrimStart(_)
TrimStart(s) ==
    IF s # <<>> /\ IsWhiteSpace(Head(s)) THEN TrimStart(Tail(s)) ELSE s

RECURSIVE TrimEnd(_)
TrimEnd(s) ==
    IF s # <<>> /\ IsWhiteSpace(s[Len(s)]) THEN TrimEnd(SubSeq(s, 1, Len(s) - 1)) ELSE s

\* Variant: no trimming.
Trim_None(s) == s

Trim(s) == TrimEnd(TrimStart(s))

UPPER == <<"A", "B", "C", "D", "E", "F", "G", "H", "I", "J", "K", "L", "M", "N", "O", "P", "Q", "R", "S", "T", "U", "V", "W", "X", "Y", "Z">>

LOWER == <<"a", "b", "c", "d", "e", "f", "g", "h", "i", "j", "k", "l", "m", "n", "o", "p", "q", "r", "s", "t", "u", "v", "w", "x", "y", "z">>

LowerChar(c) ==
    IF \E i \in 1..Len(UPPER) : UPPER[i] = c
    THEN LOWER[CHOOSE i \in 1..Len(UPPER) : UPPER[i] = c]
    ELSE c

ToLowerCase(s) == [i \in 1..Len(s) |-> LowerChar(s[i])]

StartsWith(s, p) == Len(s) >= Len(p) /\ SubSeq(s, 1, Len(p)) = p

Substring(s, from) == SubSeq(s, from + 1, Len(s))

DIGITS == <<"0", "1", "2", "3", "4", "5", "6", "7", "8", "9">>

RECURSIVE NumberToString(_)
NumberToString(n) ==
    IF n < 10 THEN <<DIGITS[n + 1]>>
    ELSE NumberToString(n \div 10) \o <<DIGITS[(n % 10) + 1]>>

IsDigit(c) == \E i \in 1..10 : DIGITS[i] = c

DigitValue(c) == (CHOOSE i \in 1..10 : DIGITS[i] = c) - 1

RECURSIVE StringToNumberFrom(_, _)
StringToNumberFrom(s, acc) ==
    IF s = <<>> THEN acc
    ELSE StringToNumberFrom(Tail(s), acc * 10 + DigitValue(Head(s)))

\* Number(str) of a decimal digit string.
Number(s) == StringToNumberFrom(s, 0)

----------------------------------------------------------------------------
(* JSON.stringify and JSON.parse of a Reminder[] *)

QuoteChar(c) ==
    CASE c = "\"" -> <<"\\", "\"">>
      [] c = "\\" -> <<"\\", "\\">>
      [] c = "\n" -> <<"\\", "n">>
      [] c = "\t" -> <<"\\", "t">>
      [] OTHER -> <<c>>

RECURSIVE QuoteBody(_)
QuoteBody(s) == IF s = <<>> THEN <<>> ELSE QuoteChar(Head(s)) \o QuoteBody(Tail(s))

Quote(s) == <<"\"">> \o QuoteBody(s) \o <<"\"">>

StringifyReminder(r) ==
    <<"{">> \o Quote(<<"i", "d">>) \o <<":">> \o NumberToString(r.id) \o <<",">>
          \o Quote(<<"t", "e", "x", "t">>) \o <<":">> \o Quote(r.text) \o <<"}">>

RECURSIVE StringifyElements(_)
StringifyElements(list) ==
    IF list = <<>> THEN <<>>
    ELSE IF Len(list) = 1 THEN StringifyReminder(list[1])
    ELSE StringifyReminder(list[1]) \o <<",">> \o StringifyElements(Tail(list))

JSONStringify(list) == <<"[">> \o StringifyElements(list) \o <<"]">>

Unescape(c) ==
    CASE c = "n" -> "\n"
      [] c = "t" -> "\t"
      [] OTHER -> c

\* Reads a string literal whose opening quote is at s[i - 1]; yields the
\* value and the position after the closing quote.
RECURSIVE ParseStringBody(_, _, _)
ParseStringBody(s, i, acc) ==
    IF s[i] = "\"" THEN [val |-> acc, next |-> i + 1]
    ELSE IF s[i] = "\\" THEN ParseStringBody(s, i + 2, Append(acc, Unescape(s[i + 1])))
    ELSE ParseStringBody(s, i + 1, Append(acc, s[i]))

RECURSIVE ParseNumber(_, _, _)
ParseNumber(s, i, acc) ==
    IF i <= Len(s) /\ IsDigit(s[i]) THEN ParseNumber(s, i + 1, acc * 10 + DigitValue(s[i]))
    ELSE [val |-> acc, next |-> i]

ParseValue(s, i) ==
    IF s[i] = "\"" THEN ParseStringBody(s, i + 1, <<>>) ELSE ParseNumber(s, i, 0)

\* Reads the members of an object from the key at s[i] on; obj collects them.
RECURSIVE ParseMembers(_, _, _)
ParseMembers(s, i, obj) ==
    LET key == ParseStringBody(s, i + 1, <<>>)
        value == ParseValue(s, key.next + 1)
        got == IF key.val = <<"i", "d">> THEN [obj EXCEPT !.id = value.val]
               ELSE IF key.val = <<"t", "e", "x", "t">> THEN [obj EXCEPT !.text = value.val]
               ELSE obj
    IN IF s[value.next] = "," THEN ParseMembers(s, value.next + 1, got)
       ELSE [val |-> got, next |-> value.next + 1]

ParseObject(s, i) == ParseMembers(s, i + 1, [id |-> 0, text |-> <<>>])

RECURSIVE ParseElements(_, _, _)
ParseElements(s, i, acc) ==
    LET el == ParseObject(s, i)
    IN IF s[el.next] = "," THEN ParseElements(s, el.next + 1, Append(acc, el.val))
       ELSE Append(acc, el.val)

JSONParse(s) == IF s[2] = "]" THEN <<>> ELSE ParseElements(s, 2, <<>>)

----------------------------------------------------------------------------
(* Fixed texts of the program *)

TRIGGER == <<"r", "e", "m", "i", "n", "d", " ", "m", "e", " ", "t", "o">>

CONFIRMATION_PREFIX == <<"I", "'", "v", "e", " ", "a", "d", "d", "e", "d", " ", "a", " ", "r", "e", "m", "i", "n", "d", "e", "r", " ", "f", "o", "r", " ", "y", "o", "u", ":", " ", "\"">>

APOLOGY == <<"I", " ", "a", "p", "o", "l", "o", "g", "i", "z", "e", ",", " ", "b", "u", "t", " ", "I", " ", "h", "a", "d", " ", "a", " ", "l", "i", "t", "t", "l", "e", " ", "t", "r", "o", "u", "b", "l", "e", " ", "c", "o", "n", "n", "e", "c", "t", "i", "n", "g", ".", " ", "C", "o", "u", "l", "d", " ", "y", "o", "u", " ", "p", "l", "e", "a", "s", "e", " ", "t", "r", "y", " ", "a", "g", "a", "i", "n", "?">>

RECOGNITION_ERROR == <<"I", "'", "m", " ", "s", "o", "r", "r", "y", ",", " ", "I", " ", "c", "o", "u", "l", "d", "n", "'", "t", " ", "h", "e", "a", "r", " ", "t", "h", "a", "t", ".", " ", "P", "l", "e", "a", "s", "e", " ", "t", "r", "y", " ", "a", "g", "a", "i", "n", ".">>

WELCOME == <<"H", "e", "l", "l", "o", ",", " ", "I", "'", "m", " ", "M", "I", "R", "A", ".", " ", "H", "o", "w", " ", "c", "a", "n", " ", "I", " ", "h", "e", "l", "p", " ", "y", "o", "u", " ", "t", "o", "d", "a", "y", "?">>

NO_REMINDERS == <<"Y", "o", "u", " ", "h", "a", "v", "e", " ", "n", "o", " ", "r", "e", "m", "i", "n", "d", "e", "r", "s", ".">>

(* Inputs of the model *)

\* What the user types or says.
Messages ==
    { <<>>, <<" ", "\t">>, <<"h", "i">>, <<"R", "e", "m", "i", "n", "d", " ", "m", "e", " ", "t", "o", " ", " ", "\"", "a", "\"", " ">>, <<"R", "E", "M", "I", "N", "D", " ", "M", "E", " ", "T", "O">> }

\* response.text of a fulfilled chat.sendMessage.
Replies == { <<"H", "e", "l", "l", "o", "!">> }

\* event.error of a SpeechRecognitionErrorEvent.
ErrorCodes == {"aborted", "no-speech", "not-allowed"}

\* The first value of Date.now() in a run, as an offset.
ClockStart == 9

----------------------------------------------------------------------------
(* DOM helpers *)

\* Variant: inserts the new element before the existing ones.
appendMessage_Prepend(history, id, text, sender) ==
    <<[id |-> id, class |-> sender, text |-> text]>> \o history

appendMessage(history, id, text, sender) ==
    Append(history, [id |-> id, class |-> sender, text |-> text])

\* Variant: removes the last child instead of the referenced element.
hideLoadingIndicator_LastChild(history, ref) ==
    IF ref # 0 THEN SubSeq(history, 1, Len(history) - 1) ELSE history

\* The history after hideLoadingIndicator: the referenced element is removed.
hideLoadingIndicator(history, ref) ==
    LET Kept(el) == el.id # ref
    IN IF ref # 0 THEN SelectSeq(history, Kept) ELSE history

\* Variant: a new element is appended whether or not one is referenced.
showLoadingIndicator_Always(history, ref, id) ==
    Append(history, [id |-> id, class |-> "loading", text |-> <<>>])

\* The history after showLoadingIndicator, whose new element would be `id`.
showLoadingIndicator(history, ref, id) ==
    IF ref # 0 THEN history
    ELSE Append(history, [id |-> id, class |-> "loading", text |-> <<>>])

renderReminders(list) ==
    IF Len(list) = 0
    THEN << [tag |-> "p", text |-> NO_REMINDERS, dataId |-> <<>>] >>
    ELSE [i \in 1..Len(list) |->
            [tag |-> "li", text |-> list[i].text, dataId |-> NumberToString(list[i].id)]]

----------------------------------------------------------------------------
(* Voice output *)

\* synth.cancel(): the queue is emptied; an utterance that was being spoken
\* gets its end (or error) event later.
CancelledQueue == <<>>

CancelledEvents(queue) ==
    IF queue # <<>> /\ Head(queue).started THEN 1 ELSE 0

speak(text) ==
    LET queue == IF isSpeaking THEN CancelledQueue ELSE synthQueue
        ends == IF isSpeaking THEN CancelledEvents(synthQueue) ELSE 0
    IN /\ synthQueue' = Append(queue, [id |-> utterances + 1, text |-> text,
                                       started |-> FALSE])
       /\ utterances' = utterances + 1
       /\ cancelledEnds' = cancelledEnds + ends

Silent == UNCHANGED <<synthQueue, utterances, cancelledEnds>>

----------------------------------------------------------------------------
(* Reminder store *)

REMINDERS_KEY == "reminders"

\* localStorage.getItem(key): <<value>>, or <<>> for null.
GetItem(store, key) == IF key \in DOMAIN store THEN <<store[key]>> ELSE <<>>

\* The storage after localStorage.setItem(key, value).
SetItem(store, key, value) ==
    [k \in DOMAIN store \cup {key} |-> IF k = key THEN value ELSE store[k]]

\* The truthiness of a getItem result: neither null nor the empty string.
Truthy(item) == item # <<>> /\ item[1] # <<>>

saveReminders(list) == SetItem(localStorage, REMINDERS_KEY, JSONStringify(list))

\* Variant: addReminder saves before it pushes.
addReminder_SaveFirst(text) ==
    LET list == Append(reminders, [id |-> now, text |-> text])
    IN /\ reminders' = list
       /\ localStorage' = saveReminders(reminders)
       /\ remindersList' = renderReminders(list)

addReminder(text) ==
    LET list == Append(reminders, [id |-> now, text |-> text])
    IN /\ reminders' = list
       /\ localStorage' = saveReminders(list)
       /\ remindersList' = renderReminders(list)

\* Variant: deleteReminder without its saveReminders call.
deleteReminder_NoSave(id) ==
    LET Kept(reminder) == reminder.id # id
        list == SelectSeq(reminders, Kept)
    IN /\ reminders' = list
       /\ UNCHANGED localStorage
       /\ remindersList' = renderReminders(list)

deleteReminder(id) ==
    LET Kept(reminder) == reminder.id # id
        list == SelectSeq(reminders, Kept)
    IN /\ reminders' = list
       /\ localStorage' = saveReminders(list)
       /\ remindersList' = renderReminders(list)

loadReminders ==
    LET storedReminders == GetItem(localStorage, REMINDERS_KEY)
    IN IF Truthy(storedReminders)
       THEN /\ reminders' = JSONParse(storedReminders[1])
            /\ remindersList' = renderReminders(reminders')
       ELSE UNCHANGED <<reminders, remindersList>>

----------------------------------------------------------------------------
(* Message router and conversation session *)

\* Variant: the prefix test without toLowerCase.
IsReminderCommand_CaseSensitive(message) == StartsWith(message, TRIGGER)

IsReminderCommand(message) == StartsWith(ToLowerCase(message), TRIGGER)

\* Variant: the reminder text without its trim.
ReminderText_Untrimmed(message) == Substring(message, Len(TRIGGER))

ReminderText(message) == Trim(Substring(message, Len(TRIGGER)))

Confirmation(reminderText) == CONFIRMATION_PREFIX \o reminderText \o <<"\"">>

\* sendMessageToMira up to its await; the caller has set chatInput.value.
sendMessageToMira(message) ==
    /\ submitted' = Append(submitted, message)
    /\ IF Trim(message) = <<>>
       THEN /\ UNCHANGED <<chatHistory, nodes, loadingMessageElement, reminders,
                           remindersList, localStorage, remoteCalls>>
            /\ Silent
       ELSE IF IsReminderCommand(message)
       THEN /\ addReminder(ReminderText(message))
            /\ chatHistory' =
                 appendMessage(appendMessage(chatHistory, nodes + 1, message, "user"),
                               nodes + 2, Confirmation(ReminderText(message)), "mira")
            /\ nodes' = nodes + 2
            /\ speak(Confirmation(ReminderText(message)))
            /\ UNCHANGED <<loadingMessageElement, remoteCalls>>
       ELSE /\ chatHistory' =
                 showLoadingIndicator(appendMessage(chatHistory, nodes + 1, message, "user"),
                                      loadingMessageElement, nodes + 2)
            /\ loadingMessageElement' =
                 IF loadingMessageElement # 0 THEN loadingMessageElement ELSE nodes + 2
            /\ nodes' = IF loadingMessageElement # 0 THEN nodes + 1 ELSE nodes + 2
            /\ remoteCalls' = Append(remoteCalls, [message |-> message, state |-> "pending"])
            /\ Silent
            /\ UNCHANGED <<reminders, remindersList, localStorage>>

\* Variant: the catch branch shows response.text too.
Settled_ReplyOnly(outcome, reply) == reply

\* The text shown and spoken when call c settles.
Settled(outcome, reply) == IF outcome = "fulfilled" THEN reply ELSE APOLOGY

\* Variant: a rejected call is issued again.
SendMessageContinuation_Retry(c, outcome, reply) ==
    /\ remoteCalls' =
         IF outcome = "rejected"
         THEN Append([remoteCalls EXCEPT ![c].state = outcome],
                     [message |-> remoteCalls[c].message, state |-> "pending"])
         ELSE [remoteCalls EXCEPT ![c].state = outcome]
    /\ chatHistory' =
         appendMessage(hideLoadingIndicator(chatHistory, loadingMessageElement),
                       nodes + 1, Settled(outcome, reply), "mira")
    /\ loadingMessageElement' = 0
    /\ nodes' = nodes + 1
    /\ speak(Settled(outcome, reply))
    /\ UNCHANGED uncaught

\* The rest of sendMessageToMira, after the await of call c: try or catch branch.
SendMessageContinuation(c, outcome, reply) ==
    /\ remoteCalls' = [remoteCalls EXCEPT ![c].state = outcome]
    /\ chatHistory' =
         appendMessage(hideLoadingIndicator(chatHistory, loadingMessageElement),
                       nodes + 1, Settled(outcome, reply), "mira")
    /\ loadingMessageElement' = 0
    /\ nodes' = nodes + 1
    /\ speak(Settled(outcome, reply))
    /\ UNCHANGED uncaught

----------------------------------------------------------------------------
(* Events *)

\* The state once the script has run, in a run of at most b user events.
InitWith(b) ==
    /\ budget = b
    /\ chatHistory = <<>>
    /\ nodes = 0
    /\ chatInput = <<>>
    /\ loadingMessageElement = 0
    /\ reminders = <<>>
    /\ remindersList = <<>>
    /\ localStorage = [k \in {} |-> <<>>]
    /\ now = ClockStart
    /\ remoteCalls = <<>>
    /\ isListening = FALSE
    /\ isSpeaking = FALSE
    /\ recognition = "idle"
    /\ recognitionError = "none"
    /\ synthQueue = <<>>
    /\ utterances = 0
    /\ cancelledEnds = 0
    /\ loaded = FALSE
    /\ welcomeTimer = FALSE
    /\ uncaught = 0
    /\ submitted = <<>>
    /\ clickCancelled = {}
    /\ previousSession = <<>>
    /\ events = 0

Init == InitWith(MaxEvents)

InitStore == InitWith(MaxStoreEvents)

\* chatForm submit handler; the user has typed m into the text field.
FormSubmit(m) ==
    /\ events < budget
    /\ events' = events + 1
    /\ UNCHANGED budget
    /\ sendMessageToMira(m)
    /\ chatInput' = IF Trim(m) = <<>> THEN m ELSE <<>>
    /\ UNCHANGED <<now, isListening, isSpeaking, recognition, loaded, welcomeTimer,
                   uncaught, clickCancelled, previousSession, recognitionError>>

\* chat.sendMessage settles and the awaiting sendMessageToMira resumes.
Response(c, outcome, reply) ==
    /\ remoteCalls[c].state = "pending"
    /\ SendMessageContinuation(c, outcome, reply)
    /\ UNCHANGED <<chatInput, reminders, remindersList, localStorage, now, isListening,
                   isSpeaking, recognition, loaded, welcomeTimer, submitted,
                   clickCancelled, previousSession, recognitionError, events, budget>>

\* remindersList click handler, for a click on the delete button of item i.
DeleteClick(i) ==
    /\ events < budget
    /\ events' = events + 1
    /\ UNCHANGED budget
    /\ remindersList[i].tag = "li"
    /\ deleteReminder(Number(remindersList[i].dataId))
    /\ UNCHANGED <<chatHistory, nodes, chatInput, loadingMessageElement, now, remoteCalls,
                   isListening, isSpeaking, recognition, synthQueue, utterances,
                   cancelledEnds, loaded, welcomeTimer, uncaught, submitted,
                   clickCancelled, previousSession, recognitionError>>

\* Variant: the click handler without its synth.cancel() call.
MicClick_NoCancel ==
    /\ events < budget
    /\ events' = events + 1
    /\ UNCHANGED budget
    /\ IF isListening
       THEN /\ recognition' = IF recognition = "listening" THEN "stopping" ELSE recognition
            /\ UNCHANGED <<synthQueue, cancelledEnds, uncaught, clickCancelled>>
       ELSE /\ UNCHANGED <<synthQueue, cancelledEnds>>
            /\ clickCancelled' = {synthQueue[k].id : k \in 1..Len(synthQueue)}
            /\ IF recognition = "idle"
               THEN recognition' = "starting" /\ UNCHANGED uncaught
               ELSE uncaught' = uncaught + 1 /\ UNCHANGED recognition
    /\ UNCHANGED <<chatHistory, nodes, chatInput, loadingMessageElement, reminders,
                   remindersList, localStorage, now, remoteCalls, isListening, isSpeaking,
                   utterances, loaded, welcomeTimer, submitted, previousSession,
                   recognitionError>>

\* micButton click handler.
MicClick ==
    /\ events < budget
    /\ events' = events + 1
    /\ UNCHANGED budget
    /\ IF isListening
       THEN /\ recognition' = IF recognition = "listening" THEN "stopping" ELSE recognition
            /\ UNCHANGED <<synthQueue, cancelledEnds, uncaught, clickCancelled>>
       ELSE /\ synthQueue' = CancelledQueue
            /\ cancelledEnds' = cancelledEnds + CancelledEvents(synthQueue)
            /\ clickCancelled' = {synthQueue[k].id : k \in 1..Len(synthQueue)}
            /\ IF recognition = "idle"
               THEN recognition' = "starting" /\ UNCHANGED uncaught
               ELSE uncaught' = uncaught + 1 /\ UNCHANGED recognition
    /\ UNCHANGED <<chatHistory, nodes, chatInput, loadingMessageElement, reminders,
                   remindersList, localStorage, now, remoteCalls, isListening, isSpeaking,
                   utterances, loaded, welcomeTimer, submitted, previousSession,
                   recognitionError>>

RecognitionOnStart ==
    /\ recognition = "starting"
    /\ recognition' = "listening"
    /\ isListening' = TRUE
    /\ UNCHANGED <<chatHistory, nodes, chatInput, loadingMessageElement, reminders,
                   remindersList, localStorage, now, remoteCalls, isSpeaking, synthQueue,
                   utterances, cancelledEnds, loaded, welcomeTimer, uncaught, submitted,
                   clickCancelled, previousSession, recognitionError, events, budget>>

\* Variant: the end event leaves isListening as it was.
RecognitionOnEnd_NoReset ==
    /\ recognition \in {"listening", "stopping", "ending"}
    /\ recognition' = "idle"
    /\ recognitionError' = "none"
    /\ UNCHANGED <<chatHistory, nodes, chatInput, loadingMessageElement, reminders,
                   remindersList, localStorage, now, remoteCalls, isListening, isSpeaking,
                   synthQueue, utterances, cancelledEnds, loaded, welcomeTimer, uncaught,
                   submitted, clickCancelled, previousSession, events, budget>>

\* recognition.onend.
RecognitionOnEnd ==
    /\ recognition \in {"listening", "stopping", "ending"}
    /\ recognition' = "idle"
    /\ isListening' = FALSE
    /\ recognitionError' = "none"
    /\ UNCHANGED <<chatHistory, nodes, chatInput, loadingMessageElement, reminders,
                   remindersList, localStorage, now, remoteCalls, isSpeaking, synthQueue,
                   utterances, cancelledEnds, loaded, welcomeTimer, uncaught, submitted,
                   clickCancelled, previousSession, events, budget>>

RecognitionOnResult(transcript) ==
    /\ recognition \in {"listening", "stopping"}
    /\ recognition' = "ending"
    /\ sendMessageToMira(transcript)
    /\ chatInput' = IF Trim(transcript) = <<>> THEN transcript ELSE <<>>
    /\ UNCHANGED <<now, isListening, isSpeaking, loaded, welcomeTimer, uncaught,
                   clickCancelled, previousSession, recognitionError, events, budget>>

\* recognition.onerror; the handler does not read event.error.
RecognitionOnError(error) ==
    /\ recognition \in {"starting", "listening", "stopping"}
    /\ recognition' = "ending"
    /\ recognitionError' = error
    /\ chatHistory' = appendMessage(chatHistory, nodes + 1, RECOGNITION_ERROR, "mira")
    /\ nodes' = nodes + 1
    /\ speak(RECOGNITION_ERROR)
    /\ UNCHANGED <<chatInput, loadingMessageElement, reminders, remindersList,
                   localStorage, now, remoteCalls, isListening, isSpeaking, loaded,
                   welcomeTimer, uncaught, submitted, clickCancelled, previousSession,
                   events, budget>>

\* utterance.onstart: the head of the queue begins to play.
UtteranceOnStart ==
    /\ synthQueue # <<>>
    /\ ~Head(synthQueue).started
    /\ synthQueue' = [synthQueue EXCEPT ![1].started = TRUE]
    /\ isSpeaking' = TRUE
    /\ UNCHANGED <<chatHistory, nodes, chatInput, loadingMessageElement, reminders,
                   remindersList, localStorage, now, remoteCalls, isListening, recognition,
                   utterances, cancelledEnds, loaded, welcomeTimer, uncaught, submitted,
                   clickCancelled, previousSession, recognitionError, events, budget>>

\* utterance.onend: the playing utterance finishes.
UtteranceOnEnd ==
    /\ synthQueue # <<>>
    /\ Head(synthQueue).started
    /\ synthQueue' = Tail(synthQueue)
    /\ isSpeaking' = FALSE
    /\ UNCHANGED <<chatHistory, nodes, chatInput, loadingMessageElement, reminders,
                   remindersList, localStorage, now, remoteCalls, isListening, recognition,
                   utterances, cancelledEnds, loaded, welcomeTimer, uncaught, submitted,
                   clickCancelled, previousSession, recognitionError, events, budget>>

\* A cancelled utterance reports its end: through onend, or through an error
\* event, for which the program has no handler.
CancelledUtteranceEvent(asEnd) ==
    /\ cancelledEnds > 0
    /\ cancelledEnds' = cancelledEnds - 1
    /\ isSpeaking' = IF asEnd THEN FALSE ELSE isSpeaking
    /\ UNCHANGED <<chatHistory, nodes, chatInput, loadingMessageElement, reminders,
                   remindersList, localStorage, now, remoteCalls, isListening, recognition,
                   synthQueue, utterances, loaded, welcomeTimer, uncaught, submitted,
                   clickCancelled, previousSession, recognitionError, events, budget>>

\* window load handler.
WindowLoad ==
    /\ ~loaded
    /\ loaded' = TRUE
    /\ loadReminders
    /\ welcomeTimer' = TRUE
    /\ UNCHANGED <<chatHistory, nodes, chatInput, loadingMessageElement, localStorage, now,
                   remoteCalls, isListening, isSpeaking, recognition, synthQueue,
                   utterances, cancelledEnds, uncaught, submitted, clickCancelled,
                   previousSession, recognitionError, events, budget>>

\* The timeout callback set by the load handler.
WelcomeTimeout ==
    /\ welcomeTimer
    /\ welcomeTimer' = FALSE
    /\ chatHistory' = appendMessage(chatHistory, nodes + 1, WELCOME, "mira")
    /\ nodes' = nodes + 1
    /\ speak(WELCOME)
    /\ UNCHANGED <<chatInput, loadingMessageElement, reminders, remindersList,
                   localStorage, now, remoteCalls, isListening, isSpeaking, recognition,
                   loaded, uncaught, submitted, clickCancelled, previousSession,
                   recognitionError, events, budget>>

\* The page is closed and opened again: the script's state starts afresh,
\* local storage and the clock go on.
Reload ==
    /\ events < budget
    /\ events' = events + 1
    /\ UNCHANGED budget
    /\ previousSession' = IF loaded THEN <<reminders>> ELSE <<>>
    /\ chatHistory' = <<>>
    /\ nodes' = 0
    /\ chatInput' = <<>>
    /\ loadingMessageElement' = 0
    /\ reminders' = <<>>
    /\ remindersList' = <<>>
    /\ remoteCalls' = <<>>
    /\ isListening' = FALSE
    /\ isSpeaking' = FALSE
    /\ recognition' = "idle"
    /\ recognitionError' = "none"
    /\ synthQueue' = <<>>
    /\ utterances' = 0
    /\ cancelledEnds' = 0
    /\ loaded' = FALSE
    /\ welcomeTimer' = FALSE
    /\ uncaught' = 0
    /\ submitted' = <<>>
    /\ clickCancelled' = {}
    /\ UNCHANGED <<localStorage, now>>

\* Time passes.
Tick ==
    /\ now < ClockStart + MaxClock
    /\ now' = now + 1
    /\ UNCHANGED <<chatHistory, nodes, chatInput, loadingMessageElement, reminders,
                   remindersList, localStorage, remoteCalls, isListening, isSpeaking,
                   recognition, synthQueue, utterances, cancelledEnds, loaded,
                   welcomeTimer, uncaught, submitted, clickCancelled, previousSession,
                   recognitionError,
                   events, budget>>

Next ==
    \/ \E m \in Messages : FormSubmit(m)
    \/ \E c \in 1..Len(remoteCalls) :
         \/ \E reply \in Replies : Response(c, "fulfilled", reply)
         \/ Response(c, "rejected", <<>>)
    \/ \E i \in 1..Len(remindersList) : DeleteClick(i)
    \/ MicClick
    \/ RecognitionOnStart
    \/ \E t \in Messages : RecognitionOnResult(t)
    \/ \E error \in ErrorCodes : RecognitionOnError(error)
    \/ RecognitionOnEnd
    \/ UtteranceOnStart
    \/ UtteranceOnEnd
    \/ CancelledUtteranceEvent(TRUE)
    \/ CancelledUtteranceEvent(FALSE)
    \/ WindowLoad
    \/ WelcomeTimeout
    \/ Reload

\* Every handler and platform event of the page, at one clock value: the
\* clock is read by addReminder alone, and SpecStore lets it advance.
Spec == Init /\ [][Next]_vars

\* The reminder store with every event that reads or writes it: the events
\* left out (responses, utterance events, the welcome timeout, recognition
\* errors) leave reminders, localStorage, remindersList and now unchanged.
NextStore ==
    \/ \E m \in Messages : FormSubmit(m)
    \/ \E i \in 1..Len(remindersList) : DeleteClick(i)
    \/ MicClick
    \/ RecognitionOnStart
    \/ \E t \in Messages : RecognitionOnResult(t)
    \/ RecognitionOnEnd
    \/ WindowLoad
    \/ Reload
    \/ Tick

SpecStore == InitStore /\ [][NextStore]_vars

\* Spec with the platform's guarantee that a recognition session that has
\* started, or has delivered its result or error, gets its end event
\* (recognition.continuous is false).
SpecLive == Spec /\ WF_vars(RecognitionOnEnd)

----------------------------------------------------------------------------
(* Vocabulary of the properties *)

\* The messages of the model by what the specification says of them,
\* written out one by one.
BlankMessages == { <<>>, <<" ", "\t">> }

TriggerMessages == { <<"R", "e", "m", "i", "n", "d", " ", "m", "e", " ", "t", "o", " ", " ", "\"", "a", "\"", " ">>, <<"R", "E", "M", "I", "N", "D", " ", "M", "E", " ", "T", "O">> }

PlainMessages == Messages \ (BlankMessages \cup TriggerMessages)

IsSent(m) == m \notin BlankMessages

IsTurn(el) == el.class # "loading"

IsUserTurn(el) == el.class = "user"

\* An assistant turn that answers a submission: neither the greeting nor a
\* recognition error.
IsAnswerTurn(el) == el.class = "mira" /\ el.text \notin {WELCOME, RECOGNITION_ERROR}

\* The transcript: speaker and text of the displayed turns, in order.
Transcript(history) ==
    LET turns == SelectSeq(history, IsTurn)
    IN [i \in 1..Len(turns) |-> <<turns[i].class, turns[i].text>>]

TextsOf(els) == [i \in 1..Len(els) |-> els[i].text]

InFlight == {c \in 1..Len(remoteCalls) : remoteCalls[c].state = "pending"}

LoadingElements(history) == {i \in 1..Len(history) : history[i].class = "loading"}

\* A step in which sendMessageToMira is called, and its argument.
SendStep == Len(submitted') = Len(submitted) + 1

SentMessage == submitted'[Len(submitted')]

RemoveAt(list, i) == SubSeq(list, 1, i - 1) \o SubSeq(list, i + 1, Len(list))

----------------------------------------------------------------------------
(* Properties *)

\* C1: the user turns are exactly the non-blank submissions, in order, each
\* appended in the step of its submission; and the assistant turns that
\* answer submissions number the non-blank submissions less the remote calls
\* still in flight, so that each submission gets exactly one answer when it
\* resolves, whatever the interleaving of submissions and responses.
C1_OneTurnPerSubmission ==
    LET sent == SelectSeq(submitted, IsSent)
    IN /\ TextsOf(SelectSeq(chatHistory, IsUserTurn)) = sent
       /\ Len(SelectSeq(chatHistory, IsAnswerTurn)) = Len(sent) - Cardinality(InFlight)

\* Two submissions overlapped (two user turns in a row) and both calls resolved.
C1_Witness ==
    /\ Len(remoteCalls) = 2
    /\ InFlight = {}
    /\ \E i \in 1..(Len(chatHistory) - 3) :
         /\ chatHistory[i].class = "user"
         /\ chatHistory[i + 1].class = "user"
         /\ IsAnswerTurn(chatHistory[i + 2])
         /\ IsAnswerTurn(chatHistory[i + 3])

\* C2: a submission that starts with the trigger phrase, in any letter case,
\* makes no remote call and shows no loading indicator, adds exactly one
\* reminder and appends the user turn and one assistant turn; any other
\* non-blank submission adds no reminder and makes one remote call with it.
C2_PrefixDispatch ==
    [][SendStep =>
         /\ SentMessage \in TriggerMessages =>
              /\ remoteCalls' = remoteCalls
              /\ loadingMessageElement' = loadingMessageElement
              /\ Cardinality(LoadingElements(chatHistory')) =
                   Cardinality(LoadingElements(chatHistory))
              /\ Len(reminders') = Len(reminders) + 1
              /\ SubSeq(reminders', 1, Len(reminders)) = reminders
              /\ Len(chatHistory') = Len(chatHistory) + 2
              /\ SubSeq(chatHistory', 1, Len(chatHistory)) = chatHistory
              /\ chatHistory'[Len(chatHistory) + 1].class = "user"
              /\ chatHistory'[Len(chatHistory) + 1].text = SentMessage
              /\ chatHistory'[Len(chatHistory) + 2].class = "mira"
         /\ SentMessage \in PlainMessages =>
              /\ reminders' = reminders
              /\ localStorage' = localStorage
              /\ remoteCalls' =
                   Append(remoteCalls, [message |-> SentMessage, state |-> "pending"])
              /\ loadingMessageElement' # 0]_vars

\* A trigger-phrase message and another message have both been submitted.
C2_Witness ==
    /\ \E i \in 1..Len(submitted) : submitted[i] \in TriggerMessages
    /\ \E i \in 1..Len(submitted) : submitted[i] \in PlainMessages
    /\ Len(reminders) = 1
    /\ Len(remoteCalls) = 1

\* The apology as the specification words it.
SpecifiedApology ==
    <<"I", " ", "a", "p", "o", "l", "o", "g", "i", "z", "e", ",", " ", "b", "u", "t", " ", "I", " ", "h", "a", "d", " ", "a", " ", "l", "i", "t", "t", "l", "e", " ", "t", "r", "o", "u", "b", "l", "e", " ", "c", "o", "n", "n", "e", "c", "t", "i", "n", "g", ".", " ", "C", "o", "u", "l", "d", " ", "y", "o", "u", " ", "p", "l", "e", "a", "s", "e", " ", "t", "r", "y", " ", "a", "g", "a", "i", "n", "?">>

\* A step in which remote call c rejects.
Rejects(c) ==
    /\ Len(remoteCalls') = Len(remoteCalls)
    /\ remoteCalls[c].state = "pending"
    /\ remoteCalls'[c].state = "rejected"

\* C3: when a remote call rejects, exactly one assistant turn with the fixed
\* apology is appended to the transcript, the same text is handed to the
\* synthesizer, no loading indicator remains and no exception escapes; the
\* other calls of the session stay as they were.
C3_RejectionApology ==
    [][\A c \in 1..Len(remoteCalls) : Rejects(c) =>
         /\ Transcript(chatHistory') =
              Append(Transcript(chatHistory), <<"mira", SpecifiedApology>>)
         /\ synthQueue' # <<>>
         /\ synthQueue'[Len(synthQueue')].text = SpecifiedApology
         /\ ~synthQueue'[Len(synthQueue')].started
         /\ loadingMessageElement' = 0
         /\ LoadingElements(chatHistory') = {}
         /\ uncaught' = uncaught
         /\ \A d \in 1..Len(remoteCalls) : d # c => remoteCalls'[d] = remoteCalls[d]]_vars

\* A call was rejected, and a later submission was then answered by the
\* remote session.
C3_Witness ==
    /\ Len(remoteCalls) = 2
    /\ remoteCalls[1].state = "rejected"
    /\ remoteCalls[2].state = "fulfilled"
    /\ \E i \in 1..(Len(chatHistory) - 1) :
         /\ chatHistory[i].class = "mira"
         /\ chatHistory[i].text = SpecifiedApology
         /\ chatHistory[i + 1].class = "user"
    /\ uncaught = 0

\* The list persisted under 'reminders'; an absent key counts as empty.
Persisted ==
    IF "reminders" \in DOMAIN localStorage THEN JSONParse(localStorage["reminders"])
    ELSE <<>>

\* C4: once the load handler has run, the list persisted under the key
\* 'reminders' is the in-memory list: same ids, texts and order, after every
\* add and delete.
C4_WriteThrough == loaded => Persisted = reminders

\* Two reminders were added in this session and one of them deleted.
C4_Witness ==
    /\ loaded
    /\ Len(reminders) = 1
    /\ Len(submitted) = 2
    /\ \A i \in 1..2 : submitted[i] \in TriggerMessages

\* A step of deleteReminder: the list shrinks and is rendered again.
DeleteStep == Len(reminders') < Len(reminders) /\ remindersList' # <<>>

\* C5: deleteReminder removes exactly one entry and leaves the others as
\* they were, in their order.
C5_DeleteRemovesOne ==
    [][DeleteStep => \E i \in 1..Len(reminders) : reminders' = RemoveAt(reminders, i)]_vars

\* C6: the loading indicator is in the chat history exactly while a remote
\* call is in flight.
C6_IndicatorIffInFlight ==
    (loadingMessageElement # 0 /\ LoadingElements(chatHistory) # {}) <=> InFlight # {}

Audible == synthQueue # <<>> /\ Head(synthQueue).started

\* C7: while recognition is listening, no utterance that was in the
\* synthesizer's queue at the microphone click that started it is left there.
C7_CancelledBeforeListening ==
    recognition = "listening" =>
        \A k \in 1..Len(synthQueue) : synthQueue[k].id \notin clickCancelled

\* Recognition is listening after a click that found an utterance to cancel.
C7_Witness == recognition = "listening" /\ isListening /\ clickCancelled # {}

\* C8: recognition is never listening while an utterance is being spoken.
C8_MutuallyExclusive == ~(isListening /\ recognition = "listening" /\ Audible)

\* C9: a submission of an empty or whitespace-only message changes nothing:
\* no turn, no remote call, no reminder, no loading indicator, no speech.
C9_BlankChangesNothing ==
    [][(SendStep /\ SentMessage \in BlankMessages) =>
         UNCHANGED <<chatHistory, nodes, loadingMessageElement, reminders, remindersList,
                     localStorage, remoteCalls, synthQueue, utterances, cancelledEnds,
                     isSpeaking, uncaught>>]_vars

\* A blank speech transcript arrived after a turn had been displayed and an
\* utterance queued.
C9_Witness ==
    /\ submitted # <<>>
    /\ submitted[Len(submitted)] \in BlankMessages
    /\ recognition = "ending"
    /\ chatHistory # <<>>
    /\ synthQueue # <<>>

\* A step of the load handler in a fresh session: nothing was submitted
\* before it, so the list is empty and local storage is as the previous
\* session left it.
FreshLoadStep == ~loaded /\ loaded' /\ reminders = <<>> /\ submitted = <<>>

\* C10: the load handler of a fresh session yields the list the previous
\* session ended with; with nothing persisted it leaves the list empty.
C10_RoundTrip ==
    [][FreshLoadStep =>
         /\ previousSession # <<>> => reminders' = previousSession[1]
         /\ "reminders" \notin DOMAIN localStorage => reminders' = <<>>
         /\ uncaught' = uncaught]_vars

\* A session that ended with two reminders, one with a quotation mark in
\* its text, was followed by a fresh session whose load handler has run.
C10_Witness ==
    /\ loaded
    /\ submitted = <<>>
    /\ previousSession # <<>>
    /\ Len(previousSession[1]) = 2
    /\ \E i \in 1..2 : \E k \in 1..Len(previousSession[1][i].text) :
         previousSession[1][i].text[k] = "\""
    /\ reminders = previousSession[1]

\* The reminder text the specification gives each trigger-phrase message of
\* the model: the message less the phrase, trimmed.
SpecifiedReminderText(m) ==
    IF m = <<"R", "e", "m", "i", "n", "d", " ", "m", "e", " ", "t", "o", " ", " ", "\"", "a", "\"", " ">> THEN <<"\"", "a", "\"">> ELSE <<>>

\* The confirmation as the specification words it.
SpecifiedConfirmation(m) ==
    IF m = <<"R", "e", "m", "i", "n", "d", " ", "m", "e", " ", "t", "o", " ", " ", "\"", "a", "\"", " ">> THEN <<"I", "'", "v", "e", " ", "a", "d", "d", "e", "d", " ", "a", " ", "r", "e", "m", "i", "n", "d", "e", "r", " ", "f", "o", "r", " ", "y", "o", "u", ":", " ", "\"", "\"", "a", "\"", "\"">>
    ELSE <<"I", "'", "v", "e", " ", "a", "d", "d", "e", "d", " ", "a", " ", "r", "e", "m", "i", "n", "d", "e", "r", " ", "f", "o", "r", " ", "y", "o", "u", ":", " ", "\"", "\"">>

\* C11: a trigger-phrase message adds a reminder whose text is the message
\* less the phrase, trimmed, and the confirmation appended and spoken is
\* exactly: I've added a reminder for you: "<that text>".
C11_ReminderTextAndConfirmation ==
    [][(SendStep /\ SentMessage \in TriggerMessages) =>
         /\ reminders'[Len(reminders')].text = SpecifiedReminderText(SentMessage)
         /\ chatHistory'[Len(chatHistory')].class = "mira"
         /\ chatHistory'[Len(chatHistory')].text = SpecifiedConfirmation(SentMessage)
         /\ synthQueue'[Len(synthQueue')].text = SpecifiedConfirmation(SentMessage)]_vars

\* The mixed-case message with spaces around its text has been confirmed.
C11_Witness ==
    /\ chatHistory # <<>>
    /\ chatHistory[Len(chatHistory)].text = <<"I", "'", "v", "e", " ", "a", "d", "d", "e", "d", " ", "a", " ", "r", "e", "m", "i", "n", "d", "e", "r", " ", "f", "o", "r", " ", "y", "o", "u", ":", " ", "\"", "\"", "a", "\"", "\"">>
    /\ reminders # <<>>
    /\ reminders[Len(reminders)].text = <<"\"", "a", "\"">>

\* A step in which speak is called.
SpeakStep == utterances' = utterances + 1

\* C12: a call of speak made while an utterance is playing cancels that
\* utterance: it is no longer in the synthesizer's queue when the new
\* utterance has been handed over.
C12_SpeakCancelsPlaying ==
    [][(SpeakStep /\ Audible) =>
         \A k \in 1..Len(synthQueue') : synthQueue'[k].id # Head(synthQueue).id]_vars

\* The message of an error's category, as the variant of the handler that
\* reads event.error chooses it ('aborted' returns before the switch).
errorMessage(error) ==
    CASE error = "network" ->
           <<"I", "'", "m", " ", "h", "a", "v", "i", "n", "g", " ", "t", "r", "o", "u", "b", "l", "e", " ", "c", "o", "n", "n", "e", "c", "t", "i", "n", "g", " ", "t", "o", " ", "t", "h", "e", " ", "v", "o", "i", "c", "e", " ", "s", "e", "r", "v", "i", "c", "e", ".", " ", "C", "o", "u", "l", "d", " ", "y", "o", "u", " ", "p", "l", "e", "a", "s", "e", " ", "c", "h", "e", "c", "k", " ", "y", "o", "u", "r", " ", "i", "n", "t", "e", "r", "n", "e", "t", " ", "c", "o", "n", "n", "e", "c", "t", "i", "o", "n", " ", "a", "n", "d", " ", "t", "r", "y", " ", "a", "g", "a", "i", "n", "?">>
      [] error = "no-speech" ->
           <<"I", " ", "d", "i", "d", "n", "'", "t", " ", "s", "e", "e", "m", " ", "t", "o", " ", "h", "e", "a", "r", " ", "a", "n", "y", "t", "h", "i", "n", "g", ".", " ", "P", "l", "e", "a", "s", "e", " ", "t", "r", "y", " ", "s", "p", "e", "a", "k", "i", "n", "g", " ", "a", "g", "a", "i", "n", ".">>
      [] error \in {"not-allowed", "service-not-allowed"} ->
           <<"I", "t", " ", "s", "e", "e", "m", "s", " ", "I", " ", "d", "o", " ", "n", "o", "t", " ", "h", "a", "v", "e", " ", "p", "e", "r", "m", "i", "s", "s", "i", "o", "n", " ", "t", "o", " ", "u", "s", "e", " ", "y", "o", "u", "r", " ", "m", "i", "c", "r", "o", "p", "h", "o", "n", "e", ".", " ", "Y", "o", "u", " ", "m", "a", "y", " ", "n", "e", "e", "d", " ", "t", "o", " ", "a", "l", "l", "o", "w", " ", "i", "t", " ", "i", "n", " ", "y", "o", "u", "r", " ", "b", "r", "o", "w", "s", "e", "r", " ", "s", "e", "t", "t", "i", "n", "g", "s", ".">>
      [] OTHER ->
           <<"I", "'", "m", " ", "s", "o", "r", "r", "y", ",", " ", "I", " ", "c", "o", "u", "l", "d", "n", "'", "t", " ", "q", "u", "i", "t", "e", " ", "u", "n", "d", "e", "r", "s", "t", "a", "n", "d", " ", "t", "h", "a", "t", ".", " ", "P", "l", "e", "a", "s", "e", " ", "t", "r", "y", " ", "a", "g", "a", "i", "n", ".">>

\* A step in which the recognition error event is handled.
ErrorStep == recognitionError = "none" /\ recognitionError' # "none"

\* C13: a recognition error appends exactly one assistant turn carrying the
\* message of the error's category and speaks that message, and the error
\* 'aborted' appends no turn and speaks nothing.
C13_ErrorMessageByCategory ==
    [][ErrorStep =>
         IF recognitionError' = "aborted"
         THEN chatHistory' = chatHistory /\ utterances' = utterances
         ELSE /\ Len(chatHistory') = Len(chatHistory) + 1
              /\ SubSeq(chatHistory', 1, Len(chatHistory)) = chatHistory
              /\ chatHistory'[Len(chatHistory')].class = "mira"
              /\ chatHistory'[Len(chatHistory')].text = errorMessage(recognitionError')
              /\ utterances' = utterances + 1
              /\ synthQueue'[Len(synthQueue')].text = errorMessage(recognitionError')]_vars

\* A recognition session is active: start was requested and the end event has
\* not been handled.
SessionActive == recognition # "idle"

\* C14: a microphone click made while a recognition session is active requests
\* stop and does not call recognition.start (a call that the active session
\* answers by throwing), whenever the click falls between the start request
\* and the end event.
C14_ClickWhileActiveStops ==
    [][(SessionActive /\ MicClick) =>
         uncaught' = uncaught /\ recognition' \in {"stopping", "ending"}]_vars

IsPrefix(s, t) == Len(s) <= Len(t) /\ SubSeq(t, 1, Len(s)) = s

\* C15: within one page session every step leaves the transcript before it a
\* prefix of the transcript after it: no handler removes, reorders or rewrites
\* a displayed turn, and new turns are added at the end.
C15_TranscriptAppendOnly ==
    [][~Reload => IsPrefix(Transcript(chatHistory), Transcript(chatHistory'))]_vars

\* Two remote calls were made, one has been answered behind the loading
\* indicator and hidden it, and the other is still pending.
C15_Witness ==
    /\ Len(remoteCalls) = 2
    /\ Cardinality(InFlight) = 1
    /\ loadingMessageElement = 0
    /\ Len(Transcript(chatHistory)) = 3

IsPlain(m) == m \in PlainMessages

VoiceSubmitStep == SendStep /\ events' = events

\* C17: a recognition session submits at most once: the result handler calls
\* sendMessageToMira once with the transcript and the session then only
\* awaits its end; the error handler submits nothing; the end event leaves
\* the bridge idle with isListening false; and every state with isListening
\* true is eventually followed by such an idle state.
C17_OneSubmissionPerSession ==
    /\ [][/\ VoiceSubmitStep =>
               /\ recognition \in {"listening", "stopping"}
               /\ recognition' = "ending"
               /\ Len(submitted') = Len(submitted) + 1
          /\ recognition = "ending" => (recognition' \in {"ending", "idle"} /\ ~VoiceSubmitStep)
          /\ ErrorStep => submitted' = submitted
          /\ (recognition # "idle" /\ recognition' = "idle") => ~isListening']_vars
    /\ (isListening ~> (~isListening /\ recognition = "idle"))

\* One microphone click, and its session has recognised a message, submitted
\* it and ended.
C17_Witness ==
    /\ events = 1
    /\ clickCancelled # {}
    /\ Len(submitted) = 1
    /\ submitted[1] \in PlainMessages
    /\ recognition = "idle"
    /\ ~isListening

\* C18: the ids of the reminders in the list are pairwise distinct.
C18_DistinctIds ==
    \A i, j \in 1..Len(reminders) : reminders[i].id = reminders[j].id => i = j

\* C19: the synthesizer never holds more than one utterance that was
\* submitted and has not finished.
C19_NoQueue == Len(synthQueue) <= 1

\* A step in which a pending remote call settles.
SettleStep == Cardinality(InFlight') < Cardinality(InFlight) /\ ~Reload

\* C20: the chat history holds at most one loading element, and holds one
\* exactly when loadingMessageElement refers to it; it holds none when no
\* remote call is pending; a submission made while the element is present
\* adds no second one, and a response that finds none removes nothing.
C20_SingleLoadingIndicator ==
    /\ [](/\ Cardinality(LoadingElements(chatHistory)) <= 1
          /\ \A i \in LoadingElements(chatHistory) : chatHistory[i].id = loadingMessageElement
          /\ loadingMessageElement # 0 => LoadingElements(chatHistory) # {}
          /\ InFlight = {} => LoadingElements(chatHistory) = {})
    /\ [][/\ (SendStep /\ loadingMessageElement # 0) =>
               /\ loadingMessageElement' = loadingMessageElement
               /\ Cardinality(LoadingElements(chatHistory')) = 1
          /\ (SettleStep /\ loadingMessageElement = 0) =>
               /\ loadingMessageElement' = 0
               /\ SubSeq(chatHistory', 1, Len(chatHistory)) = chatHistory]_vars

\* Two messages were submitted before either was answered, so the second
\* submission found the loading element present and the second response found
\* none.
C20_Witness ==
    /\ Len(remoteCalls) = 2
    /\ InFlight = {}
    /\ Len(chatHistory) = 4
    /\ chatHistory[1].class = "user"
    /\ chatHistory[2].class = "user"
    /\ chatHistory[3].class = "mira"
    /\ chatHistory[4].class = "mira"
    /\ loadingMessageElement = 0

====
